---------------------------- MODULE Spec2Model ----------------------------
(***************************************************************************)
(* Persistence layer of the vacancy loader: the PostgreSQL schema of       *)
(* src/src/db_manager.py (tables employers and vacancies with their        *)
(* constraints), the connection of DatabaseConnection, and the loader      *)
(* DatabaseManager (insert_employer, insert_vacancy, load_data_from_json). *)
(*                                                                         *)
(* A nullable value is a sequence of length at most one: None is <<>> and  *)
(* a present value v is <<v>>.                                             *)
(***************************************************************************)
EXTENDS Integers, Sequences, FiniteSets

(***************************************************************************)
(* Bounds of the model.                                                    *)
(***************************************************************************)
\* most records one data source holds, employers and vacancies together
MaxBatch == 2

None == <<>>
Some(x) == <<x>>
IsNone(o) == o = <<>>

\* external ids the job board hands out
EmployerIds == {1, 2}
VacancyIds == {1, 2}

(***************************************************************************)
(* Input records.  A nested value of a vacancy record (salary, employer,   *)
(* employment, experience) is "absent" (key missing, None or an empty      *)
(* mapping: falsy in Python), a "mapping", or a "scalar" (a truthy value   *)
(* that is no mapping, e.g. the string "100000").                          *)
(***************************************************************************)
\* employer records: two employers, one of them under two names, and one
\* record without the required name
EmployerRecords ==
    { [id |-> Some(1), name |-> Some("A"), alternate_url |-> Some(1)],
      [id |-> Some(1), name |-> Some("B"), alternate_url |-> Some(1)],
      [id |-> Some(2), name |-> Some("A"), alternate_url |-> Some(2)],
      [id |-> Some(2), name |-> None, alternate_url |-> Some(2)] }

AbsentSalary ==
    [kind |-> "absent", from |-> None, to |-> None, currency |-> None,
     gross |-> None]
ScalarSalary ==
    [kind |-> "scalar", from |-> None, to |-> None, currency |-> None,
     gross |-> None]
MappingSalary(f, t) ==
    [kind |-> "mapping", from |-> f, to |-> t, currency |-> Some("RUR"),
     gross |-> Some(TRUE)]

AbsentEmployer == [kind |-> "absent", id |-> None]
ScalarEmployer == [kind |-> "scalar", id |-> None]
MappingEmployer(i) == [kind |-> "mapping", id |-> i]

AbsentLabel == [kind |-> "absent", name |-> None]
ScalarLabel == [kind |-> "scalar", name |-> None]
MappingLabel(n) == [kind |-> "mapping", name |-> n]

\* a well-formed vacancy record; alternate_url is modelled by the vacancy
\* id it ends with (https://hh.ru/vacancy/<id>)
VacancyRecord(i, ref, sal) ==
    [id |-> i, name |-> Some("Dev"), salary |-> sal, employer |-> ref,
     employment |-> MappingLabel(Some("full")),
     experience |-> MappingLabel(Some("1-3")),
     requirement |-> None, responsibility |-> None,
     alternate_url |-> i]

\* a vacancy record without salary, employer, employment and experience
BareVacancy(i) ==
    [id |-> i, name |-> Some("Dev"), salary |-> AbsentSalary,
     employer |-> AbsentEmployer, employment |-> AbsentLabel,
     experience |-> AbsentLabel, requirement |-> None,
     responsibility |-> None, alternate_url |-> i]

WellFormedVacancies ==
    { VacancyRecord(Some(1), MappingEmployer(Some(1)), MappingSalary(Some(1000), Some(2000))),
      BareVacancy(Some(1)),
      VacancyRecord(Some(2), MappingEmployer(Some(2)), MappingSalary(Some(1000), None)) }

\* records the store rejects, and records with a malformed nested value
DefectiveVacancies ==
    LET base == VacancyRecord(Some(2), MappingEmployer(Some(1)), AbsentSalary)
    IN  { [base EXCEPT !.name = None],
          [base EXCEPT !.salary = ScalarSalary],
          [base EXCEPT !.employer = ScalarEmployer],
          [base EXCEPT !.employment = ScalarLabel],
          [base EXCEPT !.experience = ScalarLabel] }

VacancyRecords == WellFormedVacancies \cup DefectiveVacancies

SeqsOfLen(S, k) == [1..k -> S]

VARIABLES
    tables,        \* names of the tables that exist in the database
    db_employers,  \* committed rows of table employers
    db_vacancies,  \* committed rows of table vacancies
    txn,           \* rows written by the open transaction, not yet committed
    connection,    \* DatabaseManager.connection: [closed, autocommit]
    pc,            \* position of the caller
    employers,     \* load_data_from_json: local employers
    vacancies,     \* load_data_from_json: local vacancies
    i,             \* load_data_from_json: position in the running loop
    stats,         \* load_data_from_json: local stats
    start,         \* committed rows when the running load was called
    first,         \* outcome of the preceding load of the same batch, if any
    acked,         \* rows whose insert returned an id
    lastOp,        \* the insert call made by the last step, if any
    query,         \* the DBManager query made by the last step, if any
    dbm,           \* the DBManager: its _connection and the scope it lives in
    fcall          \* the salary functions: their input and what they returned

\* the database and the loader
store_vars == <<tables, db_employers, db_vacancies, txn, connection, pc,
                employers, vacancies, i, stats, start, first, acked, lastOp>>

vars == <<tables, db_employers, db_vacancies, txn, connection, pc, employers,
          vacancies, i, stats, start, first, acked, lastOp, query, dbm,
          fcall>>


(***************************************************************************)
(* The database: the constraints of the two tables and the two INSERT      *)
(* statements.  A statement yields the rows of its table after it ran,     *)
(* what RETURNING id delivers to fetchone(), and whether it failed.        *)
(***************************************************************************)
\* id SERIAL PRIMARY KEY: a fresh positive number for every written row
\* (values a sequence skips are not modelled)
NextSerial(rows) == Cardinality(rows) + 1

\* employer_id INTEGER UNIQUE NOT NULL / ON CONFLICT (employer_id)
EmployerIdTaken(rows, eid) == \E r \in rows : r.employer_id = eid

\* variant: the column is declared without UNIQUE and the statement without
\* ON CONFLICT
VacancyIdTaken_NotUnique(rows, vid) == FALSE

\* vacancy_id INTEGER UNIQUE NOT NULL / ON CONFLICT (vacancy_id)
VacancyIdTaken(rows, vid) == \E r \in rows : r.vacancy_id = vid

\* variant: the column is declared without REFERENCES
ForeignKeyViolation_NotDeclared(emp_rows, ref) == FALSE

\* employer_id INTEGER REFERENCES employers(employer_id); a NULL reference
\* is not checked
ForeignKeyViolation(emp_rows, ref) ==
    /\ ~IsNone(ref)
    /\ ~EmployerIdTaken(emp_rows, ref[1])

\* variant: CREATE TABLE without IF NOT EXISTS
CreateTableIfNotExists_Plain(tbls, name) ==
    IF name \in tbls THEN [tables |-> tbls, error |-> TRUE]
    ELSE [tables |-> tbls \cup {name}, error |-> FALSE]

\* CREATE TABLE IF NOT EXISTS name (...): the tables afterwards, and whether
\* the statement failed
CreateTableIfNotExists(tbls, name) ==
    [tables |-> tbls \cup {name}, error |-> FALSE]

Failed(rows) == [rows |-> rows, returning |-> None, error |-> TRUE]
Skipped(rows) == [rows |-> rows, returning |-> None, error |-> FALSE]
Written(rows, row) ==
    [rows |-> rows \cup {row}, returning |-> Some(row.id), error |-> FALSE]

\* variant: ON CONFLICT (employer_id) DO UPDATE SET name = EXCLUDED.name
InsertIntoEmployers_Upsert(tbls, rows, id, name, url) ==
    IF "employers" \notin tbls THEN Failed(rows)
    ELSE IF IsNone(id) \/ IsNone(name) THEN Failed(rows)
    ELSE IF EmployerIdTaken(rows, id[1])
    THEN LET old == CHOOSE r \in rows : r.employer_id = id[1]
             new == [old EXCEPT !.name = name[1]]
         IN  [rows |-> (rows \ {old}) \cup {new}, returning |-> Some(old.id),
              error |-> FALSE]
    ELSE Written(rows, [id |-> NextSerial(rows), employer_id |-> id[1],
                        name |-> name[1], alternate_url |-> url])

\* INSERT INTO employers ... ON CONFLICT (employer_id) DO NOTHING RETURNING id
\* with parameters (id, name, alternate_url) of the record
InsertIntoEmployers(tbls, rows, id, name, url) ==
    IF "employers" \notin tbls THEN Failed(rows)
    ELSE IF IsNone(id) \/ IsNone(name) THEN Failed(rows)
    ELSE IF EmployerIdTaken(rows, id[1]) THEN Skipped(rows)
    ELSE Written(rows, [id |-> NextSerial(rows), employer_id |-> id[1],
                        name |-> name[1], alternate_url |-> url])

\* INSERT INTO vacancies ... ON CONFLICT (vacancy_id) DO NOTHING RETURNING id
InsertIntoVacancies(tbls, emp_rows, rows, p) ==
    IF "vacancies" \notin tbls THEN Failed(rows)
    ELSE IF IsNone(p.vacancy_id) \/ IsNone(p.name) THEN Failed(rows)
    ELSE IF VacancyIdTaken(rows, p.vacancy_id[1]) THEN Skipped(rows)
    ELSE IF ForeignKeyViolation(emp_rows, p.employer_id) THEN Failed(rows)
    ELSE Written(rows, [id |-> NextSerial(rows),
                        vacancy_id |-> p.vacancy_id[1],
                        employer_id |-> p.employer_id,
                        name |-> p.name[1],
                        salary_from |-> p.salary_from,
                        salary_to |-> p.salary_to,
                        salary_currency |-> p.salary_currency,
                        salary_gross |-> p.salary_gross,
                        requirement |-> p.requirement,
                        responsibility |-> p.responsibility,
                        employment |-> p.employment,
                        experience |-> p.experience,
                        alternate_url |-> p.alternate_url])

(***************************************************************************)
(* DatabaseConnection and DatabaseManager.                                 *)
(***************************************************************************)
\* variant: the connection is left in psycopg2's default transaction mode
connect_NoAutocommit == [closed |-> FALSE, autocommit |-> FALSE]

\* DatabaseConnection.connect: a fresh connection, switched to auto-commit
connect == [closed |-> FALSE, autocommit |-> TRUE]

\* the result of an insert method: the value it returns or the fact that it
\* raised, and the rows of its table afterwards
Raised(rows) == [outcome |-> "raised", ret |-> None, rows |-> rows]
Returned(res) ==
    [outcome |-> IF res.error THEN "error"
                 ELSE IF IsNone(res.returning) THEN "conflict"
                 ELSE "inserted",
     ret |-> res.returning,
     rows |-> res.rows]

\* variant: execute runs outside the try block
insert_employer_NoExcept(conn, tbls, rows, employer_data) ==
    IF conn.closed THEN Raised(rows)
    ELSE LET res == InsertIntoEmployers(tbls, rows, employer_data.id,
                                        employer_data.name,
                                        employer_data.alternate_url)
         IN  IF res.error THEN Raised(rows) ELSE Returned(res)

\* DatabaseManager.insert_employer: cursor() is opened outside the try
\* block, execute and fetchone run inside it
insert_employer(conn, tbls, rows, employer_data) ==
    IF conn.closed THEN Raised(rows)
    ELSE Returned(InsertIntoEmployers(tbls, rows, employer_data.id,
                                      employer_data.name,
                                      employer_data.alternate_url))

\* x.get(key) if x else None, for the nested value x: a scalar has no get
GetRaises(x) == x.kind = "scalar"

\* variant: a missing nested value yields a default instead of None
GetOrNone_Default(x, key) ==
    IF x.kind = "absent"
    THEN (IF key = "currency" THEN Some("RUR")
          ELSE IF key = "name" THEN Some("full")
          ELSE IF key = "id" THEN Some(1)
          ELSE None)
    ELSE x[key]

\* x.get(key) if x else None, for a nested value x that is no scalar
GetOrNone(x, key) == IF x.kind = "absent" THEN None ELSE x[key]

\* DatabaseManager.insert_vacancy: salary and employer are unpacked before
\* the try block, employment and experience inside it
insert_vacancy(conn, tbls, emp_rows, rows, vacancy_data) ==
    IF GetRaises(vacancy_data.salary) \/ GetRaises(vacancy_data.employer)
    THEN Raised(rows)
    ELSE IF conn.closed THEN Raised(rows)
    ELSE IF GetRaises(vacancy_data.employment) \/ GetRaises(vacancy_data.experience)
    THEN Returned(Failed(rows))
    ELSE Returned(InsertIntoVacancies(tbls, emp_rows, rows,
            [vacancy_id |-> vacancy_data.id,
             employer_id |-> GetOrNone(vacancy_data.employer, "id"),
             name |-> vacancy_data.name,
             salary_from |-> GetOrNone(vacancy_data.salary, "from"),
             salary_to |-> GetOrNone(vacancy_data.salary, "to"),
             salary_currency |-> GetOrNone(vacancy_data.salary, "currency"),
             salary_gross |-> GetOrNone(vacancy_data.salary, "gross"),
             employment |-> GetOrNone(vacancy_data.employment, "name"),
             requirement |-> vacancy_data.requirement,
             responsibility |-> vacancy_data.responsibility,
             experience |-> GetOrNone(vacancy_data.experience, "name"),
             alternate_url |-> vacancy_data.alternate_url]))

\* variant: the two totals are taken from the wrong lists
InitStats_Swapped(es, vs) ==
    [employers_loaded |-> 0, vacancies_loaded |-> 0,
     employers_total |-> Len(vs), vacancies_total |-> Len(es)]

\* load_data_from_json: the initial stats
InitStats(es, vs) ==
    [employers_loaded |-> 0, vacancies_loaded |-> 0,
     employers_total |-> Len(es), vacancies_total |-> Len(vs)]

\* variant: employers_loaded is incremented for every employer
CountEmployer_Always(st, db_id) == [st EXCEPT !.employers_loaded = @ + 1]

\* load_data_from_json: "if db_id:" and the increment of employers_loaded
CountEmployer(st, db_id) ==
    IF ~IsNone(db_id) /\ db_id[1] # 0
    THEN [st EXCEPT !.employers_loaded = @ + 1]
    ELSE st

\* load_data_from_json: the unconditional increment of vacancies_loaded
CountVacancy(st, db_id) == [st EXCEPT !.vacancies_loaded = @ + 1]

(***************************************************************************)
(* State after DatabaseManager(config) on a fresh database.                *)
(***************************************************************************)
NoRows == [employers |-> {}, vacancies |-> {}]
NoFirst == [set |-> FALSE, stats |-> InitStats(<<>>, <<>>), rows |-> NoRows]
NoOp == [kind |-> "none", ext_id |-> None, outcome |-> "none"]

\* no query was made by the last step
NoQuery ==
    [op |-> "none", arg |-> None, connects |-> 0, executes |-> 0,
     failed |-> FALSE, raised |-> FALSE, avg |-> None, rows |-> <<>>,
     stats |-> None]

\* DBManager.__init__: _connection is None; no connection of the manager
\* is open on the server; the manager was not made by execute_queries or a
\* with statement
NoConnection == [connection |-> "none", open |-> 0, scope |-> "none"]

\* no salary function was called
NoCall ==
    [fn |-> "none", storage |-> <<>>, salary_min |-> 0, salaries |-> <<>>,
     kept |-> <<>>, display |-> <<>>]

InitStore ==
    /\ tables = {}
    /\ db_employers = {}
    /\ db_vacancies = {}
    /\ txn = NoRows
    /\ connection = connect
    /\ pc = "idle"
    /\ employers = <<>>
    /\ vacancies = <<>>
    /\ i = 0
    /\ stats = InitStats(<<>>, <<>>)
    /\ start = NoRows
    /\ first = NoFirst
    /\ acked = NoRows
    /\ lastOp = NoOp

Init ==
    /\ InitStore
    /\ query = NoQuery
    /\ dbm = NoConnection
    /\ fcall = NoCall

\* the caller is between two calls
Ready == pc \in {"idle", "returned", "raised"}
Loading == pc \in {"employers", "vacancies"}

\* rows the session sees: committed ones and those of its own transaction
SeenEmployers == db_employers \cup txn.employers
SeenVacancies == db_vacancies \cup txn.vacancies

\* a step of the loader is no query: the result of an earlier query is
\* gone, and the salary functions are not involved
NoQueryMade ==
    /\ query' = NoQuery
    /\ UNCHANGED <<dbm, fcall>>

\* the locals of load_data_from_json are gone once another call is made
ForgetLoad ==
    /\ employers' = <<>>
    /\ vacancies' = <<>>
    /\ i' = 0
    /\ stats' = InitStats(<<>>, <<>>)
    /\ start' = NoRows
    /\ first' = NoFirst

\* a statement's rows are committed at once under auto-commit and stay in
\* the open transaction otherwise
StoreEmployers(rows) ==
    IF connection.autocommit
    THEN /\ db_employers' = rows
         /\ txn' = txn
    ELSE /\ db_employers' = db_employers
         /\ txn' = [txn EXCEPT !.employers = rows \ db_employers]

StoreVacancies(rows) ==
    IF connection.autocommit
    THEN /\ db_vacancies' = rows
         /\ txn' = txn
    ELSE /\ db_vacancies' = db_vacancies
         /\ txn' = [txn EXCEPT !.vacancies = rows \ db_vacancies]

AckEmployer(res) ==
    acked' = IF IsNone(res.ret) THEN acked
             ELSE [acked EXCEPT !.employers = @ \cup (res.rows \ SeenEmployers)]

AckVacancy(res) ==
    acked' = IF IsNone(res.ret) THEN acked
             ELSE [acked EXCEPT !.vacancies = @ \cup (res.rows \ SeenVacancies)]

\* DatabaseSchemaManager.create_tables: create_employers_table, then
\* create_vacancies_table; each executes its CREATE TABLE and then calls
\* connection.commit(); a failing statement raises out of create_tables
CreateTables ==
    /\ Ready
    /\ ~connection.closed
    /\ LET e == CreateTableIfNotExists(tables, "employers")
           v == CreateTableIfNotExists(e.tables, "vacancies")
       IN  IF e.error
           THEN /\ UNCHANGED <<tables, db_employers, db_vacancies, txn>>
                /\ lastOp' = [kind |-> "create_tables", ext_id |-> None,
                              outcome |-> "raised"]
           ELSE /\ tables' = IF v.error THEN e.tables ELSE v.tables
                /\ db_employers' = SeenEmployers
                /\ db_vacancies' = SeenVacancies
                /\ txn' = NoRows
                /\ lastOp' = [kind |-> "create_tables", ext_id |-> None,
                              outcome |-> IF v.error THEN "raised" ELSE "ok"]
    /\ pc' = "idle"
    /\ ForgetLoad
    /\ UNCHANGED <<connection, acked>>
    /\ NoQueryMade

\* DatabaseManager.close -> DatabaseConnection.disconnect: closing rolls an
\* open transaction back
Close ==
    /\ Ready
    /\ ~connection.closed
    /\ connection' = [connection EXCEPT !.closed = TRUE]
    /\ txn' = NoRows
    /\ pc' = "idle"
    /\ lastOp' = NoOp
    /\ ForgetLoad
    /\ UNCHANGED <<tables, db_employers, db_vacancies, acked>>
    /\ NoQueryMade

\* DatabaseManager.__init__ of the next manager, once the previous one is
\* closed or its process is gone
NewManager ==
    /\ Ready \/ pc = "interrupted"
    /\ connection.closed
    /\ connection' = connect
    /\ txn' = NoRows
    /\ pc' = "idle"
    /\ lastOp' = NoOp
    /\ ForgetLoad
    /\ UNCHANGED <<tables, db_employers, db_vacancies, acked>>
    /\ NoQueryMade

\* a direct call of insert_employer
InsertEmployerCall(e) ==
    /\ Ready
    /\ LET res == insert_employer(connection, tables, SeenEmployers, e)
       IN  /\ StoreEmployers(res.rows)
           /\ AckEmployer(res)
           /\ lastOp' = [kind |-> "employer", ext_id |-> e.id,
                         outcome |-> res.outcome]
    /\ pc' = "idle"
    /\ ForgetLoad
    /\ UNCHANGED <<tables, db_vacancies, connection>>
    /\ NoQueryMade

\* a direct call of insert_vacancy
InsertVacancyCall(v) ==
    /\ Ready
    /\ LET res == insert_vacancy(connection, tables, SeenEmployers,
                                 SeenVacancies, v)
       IN  /\ StoreVacancies(res.rows)
           /\ AckVacancy(res)
           /\ lastOp' = [kind |-> "vacancy", ext_id |-> v.id,
                         outcome |-> res.outcome]
    /\ pc' = "idle"
    /\ ForgetLoad
    /\ UNCHANGED <<tables, db_employers, connection>>
    /\ NoQueryMade

\* variant: the loop over the vacancies runs before that over the employers
After_VacanciesFirst(phase, k, es, vs) ==
    IF phase = "employers" /\ k = 0 /\ Len(vs) > 0 THEN [pc |-> "vacancies", i |-> 1]
    ELSE IF phase = "vacancies" /\ k < Len(vs) THEN [pc |-> "vacancies", i |-> k + 1]
    ELSE IF phase = "vacancies" /\ Len(es) > 0 THEN [pc |-> "employers", i |-> 1]
    ELSE IF phase = "employers" /\ k < Len(es) THEN [pc |-> "employers", i |-> k + 1]
    ELSE [pc |-> "returned", i |-> 0]

\* where load_data_from_json stands once the first k employers (phase
\* "employers") or vacancies (phase "vacancies") are done
After(phase, k, es, vs) ==
    IF phase = "employers" /\ k < Len(es) THEN [pc |-> "employers", i |-> k + 1]
    ELSE IF phase = "employers" /\ Len(vs) > 0 THEN [pc |-> "vacancies", i |-> 1]
    ELSE IF phase = "vacancies" /\ k < Len(vs) THEN [pc |-> "vacancies", i |-> k + 1]
    ELSE [pc |-> "returned", i |-> 0]

\* load_data_from_json up to the first loop: reads the two lists and
\* initialises stats
Begin(es, vs) ==
    /\ employers' = es
    /\ vacancies' = vs
    /\ stats' = InitStats(es, vs)
    /\ start' = [employers |-> db_employers, vacancies |-> db_vacancies]
    /\ pc' = After("employers", 0, es, vs).pc
    /\ i' = After("employers", 0, es, vs).i
    /\ lastOp' = NoOp
    /\ UNCHANGED <<tables, db_employers, db_vacancies, txn, connection, acked>>
    /\ NoQueryMade

LoadStart(es, vs) ==
    /\ pc = "idle"
    /\ Len(es) + Len(vs) <= MaxBatch
    /\ first' = NoFirst
    /\ Begin(es, vs)

\* load_data_from_json called again with the same data source, right after
\* it returned
LoadAgain ==
    /\ pc = "returned"
    /\ ~first.set
    /\ first' = [set |-> TRUE, stats |-> stats,
                 rows |-> [employers |-> db_employers,
                           vacancies |-> db_vacancies]]
    /\ Begin(employers, vacancies)

\* one iteration of "for employer in employers"
LoadEmployer ==
    /\ pc = "employers"
    /\ LET res == insert_employer(connection, tables, SeenEmployers,
                                  employers[i])
           nxt == After("employers", i, employers, vacancies)
       IN  /\ StoreEmployers(res.rows)
           /\ AckEmployer(res)
           /\ lastOp' = [kind |-> "employer", ext_id |-> employers[i].id,
                         outcome |-> res.outcome]
           /\ IF res.outcome = "raised"
              THEN /\ pc' = "raised"
                   /\ UNCHANGED <<i, stats>>
              ELSE /\ stats' = CountEmployer(stats, res.ret)
                   /\ pc' = nxt.pc
                   /\ i' = nxt.i
    /\ UNCHANGED <<tables, db_vacancies, connection, employers, vacancies,
                   start, first>>
    /\ NoQueryMade

\* one iteration of "for i, vacancy in enumerate(vacancies, 1)"
LoadVacancy ==
    /\ pc = "vacancies"
    /\ LET res == insert_vacancy(connection, tables, SeenEmployers,
                                 SeenVacancies, vacancies[i])
           nxt == After("vacancies", i, employers, vacancies)
       IN  /\ StoreVacancies(res.rows)
           /\ AckVacancy(res)
           /\ lastOp' = [kind |-> "vacancy", ext_id |-> vacancies[i].id,
                         outcome |-> res.outcome]
           /\ IF res.outcome = "raised"
              THEN /\ pc' = "raised"
                   /\ UNCHANGED <<i, stats>>
              ELSE /\ stats' = CountVacancy(stats, res.ret)
                   /\ pc' = nxt.pc
                   /\ i' = nxt.i
    /\ UNCHANGED <<tables, db_employers, connection, employers, vacancies,
                   start, first>>
    /\ NoQueryMade

\* the process is killed in the middle of a load: its locals and its
\* connection are gone and the server rolls back what it had not committed
Interrupt ==
    /\ Loading
    /\ pc' = "interrupted"
    /\ connection' = [connection EXCEPT !.closed = TRUE]
    /\ txn' = NoRows
    /\ ForgetLoad
    /\ UNCHANGED <<tables, db_employers, db_vacancies, acked, lastOp>>
    /\ NoQueryMade

Next ==
    \/ CreateTables
    \/ Close
    \/ NewManager
    \/ \E e \in EmployerRecords : InsertEmployerCall(e)
    \/ \E v \in VacancyRecords : InsertVacancyCall(v)
    \/ \E n \in 0..MaxBatch : \E m \in 0..(MaxBatch - n) :
          \E es \in SeqsOfLen(EmployerRecords, n),
             vs \in SeqsOfLen(VacancyRecords, m) : LoadStart(es, vs)
    \/ LoadAgain
    \/ LoadEmployer
    \/ LoadVacancy
    \/ Interrupt

Spec == Init /\ [][Next]_vars

(***************************************************************************)
(* The salary functions: the normalizer of src/src/vacancy.py and the      *)
(* salary_min filter of JSONVacancyStorage.get_vacancies.  A stored        *)
(* vacancy dict is modelled by its salary, which Vacancy.to_dict writes as *)
(* {} ("absent") or as a mapping with nullable bounds.                     *)
(***************************************************************************)
\* most vacancies the JSON file holds
MaxStored == 2

SalaryAmounts == {-1, 0, 1, 2}
SalaryBounds == {None} \cup {Some(n) : n \in SalaryAmounts}
StoredSalaries ==
    {AbsentSalary} \cup {MappingSalary(f, t) : f, t \in SalaryBounds}
Thresholds == {0, 1, 2}

\* variant: a bound counts as present when it is truthy
comparison_salary_Truthy(salary) ==
    LET f == IF IsNone(salary.from) THEN 0 ELSE salary.from[1]
        t == IF IsNone(salary.to) THEN 0 ELSE salary.to[1]
    IN  IF f # 0 /\ t # 0 THEN (f + t) \div 2
        ELSE IF f # 0 THEN f
        ELSE t

\* Vacancy.__get_comparison_salary on the salary __validate_salary kept
\* ({} unless it is a dict); // is floor division, as \div is
comparison_salary(salary) ==
    IF salary.kind # "mapping" THEN 0
    ELSE IF IsNone(salary.from) /\ IsNone(salary.to) THEN 0
    ELSE IF ~IsNone(salary.from) /\ ~IsNone(salary.to)
         THEN (salary.from[1] + salary.to[1]) \div 2
    ELSE IF ~IsNone(salary.from) THEN salary.from[1]
    ELSE salary.to[1]

\* get_vacancies, criterion salary_min: actual_salary of one vacancy dict
\* (salary.get('from', 0) or 0, salary.get('to', 0) or 0, then truthiness)
actual_salary(salary) ==
    LET salary_from == IF IsNone(salary.from) THEN 0 ELSE salary.from[1]
        salary_to == IF IsNone(salary.to) THEN 0 ELSE salary.to[1]
    IN  IF salary_from # 0 /\ salary_to # 0
        THEN (salary_from + salary_to) \div 2
        ELSE IF salary_from # 0 THEN salary_from
        ELSE IF salary_to # 0 THEN salary_to
        ELSE 0

\* JSONVacancyStorage.get_vacancies({'salary_min': value}): the vacancies
\* that match, in file order
get_vacancies(storage, value) ==
    LET matches(salary) == ~(actual_salary(salary) < value)
    IN  SelectSeq(storage, matches)

SalaryInit ==
    /\ InitStore
    /\ query = NoQuery
    /\ dbm = NoConnection
    /\ \E k \in 0..MaxStored :
          \E storage \in SeqsOfLen(StoredSalaries, k), value \in Thresholds :
             fcall = [NoCall EXCEPT !.storage = storage, !.salary_min = value]

\* the comparison salary of every stored vacancy, as the comparison
\* operators of Vacancy obtain it
ComparisonSalaryCall ==
    /\ fcall' = [fcall EXCEPT
                   !.fn = "comparison_salary",
                   !.salaries = [k \in 1..Len(fcall.storage) |->
                                   comparison_salary(fcall.storage[k])],
                   !.kept = <<>>]
    /\ UNCHANGED <<store_vars, query, dbm>>

GetVacanciesCall ==
    /\ fcall' = [fcall EXCEPT
                   !.fn = "get_vacancies",
                   !.salaries = <<>>,
                   !.kept = get_vacancies(fcall.storage, fcall.salary_min)]
    /\ UNCHANGED <<store_vars, query, dbm>>

SalaryNext ==
    \/ ComparisonSalaryCall
    \/ GetVacanciesCall

SalarySpec == SalaryInit /\ [][SalaryNext]_vars

(***************************************************************************)
(* The two salary displays: format_salary of src/src/utils.py, applied to  *)
(* a row of the query engine, and Vacancy.get_salary_display.  The string  *)
(* a display returns is modelled by its template and the values that are   *)
(* interpolated into it, its Cyrillic words in Latin letters; str(None) is  *)
(* "None".                                                                 *)
(***************************************************************************)
Currencies == {None, Some("RUR"), Some("USD")}

\* the salaries that are displayed: {} or a mapping with the keys from, to
\* and currency
DisplaySalaries ==
    {AbsentSalary} \cup
    { [MappingSalary(f, t) EXCEPT !.currency = c] :
        f \in SalaryBounds, t \in SalaryBounds, c \in Currencies }

\* f"{x}" for a nullable text x
Str(x) == IF IsNone(x) THEN "None" ELSE x[1]

Display(template, lower, upper, currency) ==
    [template |-> template, lower |-> lower, upper |-> upper,
     currency |-> currency]

\* a nullable integer is truthy when it is neither None nor 0
Truthy(x) == ~IsNone(x) /\ x[1] # 0

\* utils.format_salary
format_salary(vacancy) ==
    IF Truthy(vacancy.salary_from) /\ Truthy(vacancy.salary_to)
    THEN Display("{lower} - {upper} {currency}", vacancy.salary_from,
                 vacancy.salary_to, Some(Str(vacancy.salary_currency)))
    ELSE IF Truthy(vacancy.salary_from)
    THEN Display("ot {lower} {currency}", vacancy.salary_from, None,
                 Some(Str(vacancy.salary_currency)))
    ELSE IF Truthy(vacancy.salary_to)
    THEN Display("do {upper} {currency}", None, vacancy.salary_to,
                 Some(Str(vacancy.salary_currency)))
    ELSE Display("ne ukazana", None, None, None)

\* Vacancy.get_salary_display on the salary __validate_salary kept
get_salary_display(salary) ==
    IF salary.kind # "mapping" THEN Display("Ne ukazana", None, None, None)
    ELSE IF ~IsNone(salary.from) /\ ~IsNone(salary.to)
    THEN Display("{lower} - {upper} {currency}", salary.from, salary.to,
                 Some(Str(salary.currency)))
    ELSE IF ~IsNone(salary.from)
    THEN Display("ot {lower} {currency}", salary.from, None,
                 Some(Str(salary.currency)))
    ELSE IF ~IsNone(salary.to)
    THEN Display("do {upper} {currency}", None, salary.to,
                 Some(Str(salary.currency)))
    ELSE Display("Ne ukazana", None, None, None)

DisplayInit ==
    /\ InitStore
    /\ query = NoQuery
    /\ dbm = NoConnection
    /\ \E salary \in DisplaySalaries :
          fcall = [NoCall EXCEPT !.storage = <<salary>>]

\* format_salary on the row that carries the displayed salary
FormatSalaryCall ==
    /\ fcall' = [fcall EXCEPT
                   !.fn = "format_salary",
                   !.display = <<format_salary(
                       [salary_from |-> fcall.storage[1].from,
                        salary_to |-> fcall.storage[1].to,
                        salary_currency |-> fcall.storage[1].currency])>>]
    /\ UNCHANGED <<store_vars, query, dbm>>

GetSalaryDisplayCall ==
    /\ fcall' = [fcall EXCEPT
                   !.fn = "get_salary_display",
                   !.display = <<get_salary_display(fcall.storage[1])>>]
    /\ UNCHANGED <<store_vars, query, dbm>>

DisplayNext ==
    \/ FormatSalaryCall
    \/ GetSalaryDisplayCall

DisplaySpec == DisplayInit /\ [][DisplayNext]_vars

(***************************************************************************)
(* The query engine DBManager of src/src/db_queries.py.  It reads the      *)
(* committed rows over a connection of its own.  A SQL numeric that may be *)
(* a half is modelled by twice its value, and an average by the fraction   *)
(* num / den with den > 0.                                                 *)
(***************************************************************************)
\* the records the queried store is filled from
QueryEmployers ==
    { [id |-> Some(1), name |-> Some("A"), alternate_url |-> Some(1)] }
QuerySalaries ==
    { AbsentSalary,
      MappingSalary(Some(0), None),
      MappingSalary(Some(0), Some(1)),
      MappingSalary(Some(1), Some(4)),
      MappingSalary(None, Some(4)) }
QueryVacancies ==
    { VacancyRecord(Some(id), ref, sal) :
        id \in VacancyIds,
        ref \in {AbsentEmployer, MappingEmployer(Some(1))},
        sal \in QuerySalaries }

\* what can go wrong in an operation: psycopg2.connect fails, or the
\* statement fails
Faults == {"none", "connect", "execute"}

\* variant: a connection is opened for every operation
get_connection_Always(mgr, fault) ==
    IF fault = "connect"
    THEN [dbm |-> mgr, connects |-> 1, ok |-> FALSE]
    ELSE [dbm |-> [mgr EXCEPT !.connection = "open", !.open = @ + 1],
          connects |-> 1, ok |-> TRUE]

\* DBManager._get_connection: connects when _connection is None or closed
\* and returns the cached handle otherwise ("broken": the server has
\* dropped the connection and the handle does not know it yet)
get_connection(mgr, fault) ==
    IF mgr.connection \in {"none", "closed"}
    THEN IF fault = "connect"
         THEN [dbm |-> mgr, connects |-> 1, ok |-> FALSE]
         ELSE [dbm |-> [mgr EXCEPT !.connection = "open", !.open = @ + 1],
               connects |-> 1, ok |-> TRUE]
    ELSE [dbm |-> mgr, connects |-> 0, ok |-> TRUE]

\* "with self._get_connection() as conn: with conn.cursor() as cursor:
\* cursor.execute(query)" for a statement over the tables needed: the
\* manager afterwards, the connections and statements attempted, and
\* whether an exception was raised inside the try block.  The statement
\* fails on a broken connection, which closes the handle.
Execute(mgr, tbls, needed, fault) ==
    LET c == get_connection(mgr, fault)
    IN  IF ~c.ok
        THEN [dbm |-> c.dbm, connects |-> c.connects, executes |-> 0,
              failed |-> TRUE]
        ELSE IF c.dbm.connection = "broken"
        THEN [dbm |-> [c.dbm EXCEPT !.connection = "closed"],
              connects |-> c.connects, executes |-> 1, failed |-> TRUE]
        ELSE [dbm |-> c.dbm, connects |-> c.connects, executes |-> 1,
              failed |-> fault = "execute" \/ needed \ tbls # {}]

\* WHERE salary_from IS NOT NULL OR salary_to IS NOT NULL
Salaried(rows) ==
    {r \in rows : ~IsNone(r.salary_from) \/ ~IsNone(r.salary_to)}

\* twice the value of CASE WHEN both THEN (salary_from + salary_to) / 2.0
\* WHEN salary_from THEN salary_from WHEN salary_to THEN salary_to
\* ELSE NULL END
calculated_salary(r) ==
    IF ~IsNone(r.salary_from) /\ ~IsNone(r.salary_to)
    THEN Some(r.salary_from[1] + r.salary_to[1])
    ELSE IF ~IsNone(r.salary_from) THEN Some(2 * r.salary_from[1])
    ELSE IF ~IsNone(r.salary_to) THEN Some(2 * r.salary_to[1])
    ELSE None

RECURSIVE SumCalculated(_)
SumCalculated(rows) ==
    IF rows = {} THEN 0
    ELSE LET r == CHOOSE x \in rows : TRUE
         IN  calculated_salary(r)[1] + SumCalculated(rows \ {r})

\* SELECT AVG(CASE ... END) FROM vacancies WHERE ...: NULL over no rows
average_salary(rows) ==
    IF Salaried(rows) = {} THEN None
    ELSE Some([num |-> SumCalculated(Salaried(rows)),
               den |-> 2 * Cardinality(Salaried(rows))])

\* variant: 0 instead of None when there is nothing to average
get_avg_salary_Zero(mgr, tbls, rows, fault) ==
    LET x == Execute(mgr, tbls, {"vacancies"}, fault)
        result == average_salary(rows)
    IN  [ret |-> IF x.failed THEN None
                 ELSE IF IsNone(result) THEN Some([num |-> 0, den |-> 1])
                 ELSE result,
         dbm |-> x.dbm, connects |-> x.connects, executes |-> x.executes,
         failed |-> x.failed]

\* DBManager.get_avg_salary: "if result and result[0]: return
\* float(result[0])", else None; any exception gives None
get_avg_salary(mgr, tbls, rows, fault) ==
    LET x == Execute(mgr, tbls, {"vacancies"}, fault)
        result == average_salary(rows)
    IN  [ret |-> IF ~x.failed /\ ~IsNone(result) /\ result[1].num # 0
                 THEN result ELSE None,
         dbm |-> x.dbm, connects |-> x.connects, executes |-> x.executes,
         failed |-> x.failed]

\* x > avg for an integer column x; NULL > avg and x > NULL are not true
GreaterThan(x, avg) ==
    ~IsNone(x) /\ ~IsNone(avg) /\ x[1] * avg[1].den > avg[1].num

\* (salary_from + salary_to) / 2.0 > avg
MeanGreaterThan(r, avg) ==
    /\ ~IsNone(r.salary_from) /\ ~IsNone(r.salary_to) /\ ~IsNone(avg)
    /\ (r.salary_from[1] + r.salary_to[1]) * avg[1].den > 2 * avg[1].num

\* the WHERE clause of the second query
Exceeds(r, avg) ==
    \/ GreaterThan(r.salary_from, avg)
    \/ GreaterThan(r.salary_to, avg)
    \/ MeanGreaterThan(r, avg)

\* FROM vacancies v JOIN employers e ON v.employer_id = e.employer_id
\* WHERE ...: the projected rows
HigherSalaryRows(emp_rows, rows, avg) ==
    { [company_name |-> e.name, vacancy_name |-> v.name,
       salary_from |-> v.salary_from, salary_to |-> v.salary_to,
       salary_currency |-> v.salary_currency,
       vacancy_url |-> v.alternate_url,
       calculated_salary |-> calculated_salary(v)] :
        <<v, e>> \in { p \in rows \X emp_rows :
                         /\ p[1].employer_id = Some(p[2].employer_id)
                         /\ Exceeds(p[1], avg) } }

\* ORDER BY calculated_salary DESC: every order of the rows in which the
\* value never increases (rows of equal value come in any order)
OrderedDesc(result_rows) ==
    { sq \in [1..Cardinality(result_rows) -> result_rows] :
        /\ \A a, b \in DOMAIN sq : a # b => sq[a] # sq[b]
        /\ \A a, b \in DOMAIN sq :
              a < b => sq[a].calculated_salary[1] >= sq[b].calculated_salary[1] }

\* variant: the second query is made whatever the average is
get_vacancies_with_higher_salary_Always(mgr, tbls, emp_rows, rows, fault, fault2) ==
    LET avg_salary == get_avg_salary(mgr, tbls, rows, fault)
        x == Execute(avg_salary.dbm, tbls, {"employers", "vacancies"}, fault2)
    IN  [avg |-> avg_salary.ret, dbm |-> x.dbm,
         connects |-> avg_salary.connects + x.connects,
         executes |-> avg_salary.executes + x.executes,
         failed |-> avg_salary.failed \/ x.failed,
         results |-> IF x.failed THEN {<<>>}
                     ELSE OrderedDesc(HigherSalaryRows(emp_rows, rows,
                                                       avg_salary.ret))]

\* DBManager.get_vacancies_with_higher_salary: the average it computed,
\* the statements it executed, whether one of them failed, and the
\* results it may return
get_vacancies_with_higher_salary(mgr, tbls, emp_rows, rows, fault, fault2) ==
    LET avg_salary == get_avg_salary(mgr, tbls, rows, fault)
        x == Execute(avg_salary.dbm, tbls, {"employers", "vacancies"}, fault2)
    IN  IF IsNone(avg_salary.ret)
        THEN [avg |-> None, dbm |-> avg_salary.dbm,
              connects |-> avg_salary.connects,
              executes |-> avg_salary.executes,
              failed |-> avg_salary.failed, results |-> {<<>>}]
        ELSE [avg |-> avg_salary.ret, dbm |-> x.dbm,
              connects |-> avg_salary.connects + x.connects,
              executes |-> avg_salary.executes + x.executes,
              failed |-> x.failed,
              results |-> IF x.failed THEN {<<>>}
                          ELSE OrderedDesc(HigherSalaryRows(emp_rows, rows,
                                                            avg_salary.ret))]

\* an operation can be called while its manager exists
Alive == dbm.scope # "returned"

GetAvgSalaryCall ==
    /\ Alive
    /\ \E fault \in Faults :
          LET res == get_avg_salary(dbm, tables, db_vacancies, fault)
          IN  /\ query' = [NoQuery EXCEPT
                             !.op = "get_avg_salary",
                             !.connects = res.connects,
                             !.executes = res.executes,
                             !.failed = res.failed,
                             !.avg = res.ret]
              /\ dbm' = res.dbm
    /\ UNCHANGED <<store_vars, fcall>>

GetVacanciesWithHigherSalaryCall ==
    /\ Alive
    /\ \E fault \in Faults, fault2 \in Faults :
          LET res == get_vacancies_with_higher_salary(
                         dbm, tables, db_employers, db_vacancies, fault,
                         fault2)
          IN  /\ \E result_rows \in res.results :
                    query' = [NoQuery EXCEPT
                                !.op = "get_vacancies_with_higher_salary",
                                !.connects = res.connects,
                                !.executes = res.executes,
                                !.failed = res.failed,
                                !.avg = res.avg,
                                !.rows = result_rows]
              /\ dbm' = res.dbm
    /\ UNCHANGED <<store_vars, fcall>>

\* twice MIN(CASE ... END) and twice MAX(CASE ... END): NULL over no value
min_salary(rows) ==
    IF Salaried(rows) = {} THEN None
    ELSE calculated_salary(
             CHOOSE r \in Salaried(rows) : \A o \in Salaried(rows) :
                 calculated_salary(r)[1] <= calculated_salary(o)[1])

max_salary(rows) ==
    IF Salaried(rows) = {} THEN None
    ELSE calculated_salary(
             CHOOSE r \in Salaried(rows) : \A o \in Salaried(rows) :
                 calculated_salary(r)[1] >= calculated_salary(o)[1])

\* DBManager.get_salary_statistics: the one row of the aggregate as a
\* mapping; None stands for the empty mapping {}
get_salary_statistics(mgr, tbls, rows, fault) ==
    LET x == Execute(mgr, tbls, {"vacancies"}, fault)
    IN  [ret |-> IF x.failed THEN None
                 ELSE Some([total_vacancies |-> Cardinality(rows),
                            vacancies_with_salary |->
                                Cardinality(Salaried(rows)),
                            avg_salary |-> average_salary(rows),
                            min_salary |-> min_salary(rows),
                            max_salary |-> max_salary(rows)]),
         dbm |-> x.dbm, connects |-> x.connects, executes |-> x.executes,
         failed |-> x.failed]

GetSalaryStatisticsCall ==
    /\ Alive
    /\ \E fault \in Faults :
          LET res == get_salary_statistics(dbm, tables, db_vacancies, fault)
          IN  /\ query' = [NoQuery EXCEPT
                             !.op = "get_salary_statistics",
                             !.connects = res.connects,
                             !.executes = res.executes,
                             !.failed = res.failed,
                             !.stats = res.ret]
              /\ dbm' = res.dbm
    /\ UNCHANGED <<store_vars, fcall>>

QueryNext ==
    \/ CreateTables
    \/ \E e \in QueryEmployers : InsertEmployerCall(e)
    \/ \E v \in QueryVacancies : InsertVacancyCall(v)
    \/ GetAvgSalaryCall
    \/ GetVacanciesWithHigherSalaryCall
    \/ GetSalaryStatisticsCall

QuerySpec == Init /\ [][QueryNext]_vars

(***************************************************************************)
(* The queries over names and texts.  A text is the sequence of its        *)
(* characters.                                                             *)
(***************************************************************************)
Dev == <<"D", "e", "v">>
Mgr == <<"M", "g", "r">>

\* the records the searched store is filled from; the last two vacancies
\* carry the word in their texts only
SearchEmployers ==
    { [id |-> Some(1), name |-> Some(<<"A">>), alternate_url |-> Some(1)],
      [id |-> Some(2), name |-> Some(<<"B">>), alternate_url |-> Some(2)] }

SearchVacancy(id, name, ref, requirement, responsibility) ==
    [VacancyRecord(Some(id), ref, AbsentSalary) EXCEPT
       !.name = Some(name), !.requirement = requirement,
       !.responsibility = responsibility]

SearchVacancies ==
    { SearchVacancy(1, Dev, MappingEmployer(Some(1)), None, None),
      SearchVacancy(1, Mgr, MappingEmployer(Some(1)), None, None),
      SearchVacancy(2, Dev, MappingEmployer(Some(1)), None, None),
      SearchVacancy(2, Mgr, MappingEmployer(Some(2)), None, None),
      SearchVacancy(2, Mgr, AbsentEmployer, None, Some(<<"d", "e", "v">>)),
      SearchVacancy(1, Mgr, MappingEmployer(Some(2)), Some(Dev), None) }

Keywords == { Dev, <<"d", "e", "v">>, <<"M">>, <<"_">>, <<"%">> }

\* company ids asked for: those of the employers and one of no employer
CompanyIds == EmployerIds \cup {3}

\* lower case of a character
Lower(c) ==
    CASE c = "A" -> "a" [] c = "B" -> "b" [] c = "D" -> "d" [] c = "M" -> "m"
      [] OTHER -> c

\* code point of a character
Code(c) ==
    CASE c = "%" -> 37 [] c = "A" -> 65 [] c = "B" -> 66 [] c = "D" -> 68
      [] c = "M" -> 77 [] c = "_" -> 95 [] c = "a" -> 97 [] c = "b" -> 98
      [] c = "d" -> 100 [] c = "e" -> 101 [] c = "g" -> 103
      [] c = "m" -> 109 [] c = "r" -> 114 [] c = "v" -> 118

\* text ILIKE pattern: % matches any run of characters, _ any one
\* character, any other character itself whatever its case
RECURSIVE Like(_, _)
Like(pattern, text) ==
    IF pattern = <<>> THEN text = <<>>
    ELSE IF Head(pattern) = "%"
    THEN Like(Tail(pattern), text)
           \/ (text # <<>> /\ Like(pattern, Tail(text)))
    ELSE /\ text # <<>>
         /\ Head(pattern) = "_" \/ Lower(Head(pattern)) = Lower(Head(text))
         /\ Like(Tail(pattern), Tail(text))

\* column ILIKE %s for a nullable column: NULL ILIKE ... is not true
ILike(column, pattern) == ~IsNone(column) /\ Like(pattern, column[1])

\* a <= b in the order of ORDER BY on a text column (by code points)
RECURSIVE TextLeq(_, _)
TextLeq(a, b) ==
    IF a = <<>> THEN TRUE
    ELSE IF b = <<>> THEN FALSE
    ELSE IF Head(a) # Head(b) THEN Code(Head(a)) < Code(Head(b))
    ELSE TextLeq(Tail(a), Tail(b))

\* the orders in which the elements of a set can be returned
Orders(S) ==
    { sq \in [1..Cardinality(S) -> S] :
        \A a, b \in DOMAIN sq : a # b => sq[a] # sq[b] }

\* COUNT(v.id) of the group of employer e in
\* employers e LEFT JOIN vacancies v ON e.employer_id = v.employer_id
vacancies_count(e, rows) ==
    Cardinality({v \in rows : v.employer_id = Some(e.employer_id)})

CompanyRow(e, rows) ==
    [company_name |-> e.name, vacancies_count |-> vacancies_count(e, rows)]

\* variant: JOIN instead of LEFT JOIN
get_companies_and_vacancies_count_Inner(mgr, tbls, emp_rows, rows, fault) ==
    LET x == Execute(mgr, tbls, {"employers", "vacancies"}, fault)
        joined == {e \in emp_rows : vacancies_count(e, rows) > 0}
    IN  [dbm |-> x.dbm, connects |-> x.connects, executes |-> x.executes,
         failed |-> x.failed,
         results |->
           IF x.failed THEN {<<>>}
           ELSE { [k \in DOMAIN sq |-> CompanyRow(sq[k], rows)] :
                    sq \in { o \in Orders(joined) :
                               \A a, b \in DOMAIN o :
                                 a < b => vacancies_count(o[a], rows) >=
                                            vacancies_count(o[b], rows) } }]

\* DBManager.get_companies_and_vacancies_count: GROUP BY e.id, e.name
\* ORDER BY vacancies_count DESC; groups of equal count come in any order
get_companies_and_vacancies_count(mgr, tbls, emp_rows, rows, fault) ==
    LET x == Execute(mgr, tbls, {"employers", "vacancies"}, fault)
    IN  [dbm |-> x.dbm, connects |-> x.connects, executes |-> x.executes,
         failed |-> x.failed,
         results |->
           IF x.failed THEN {<<>>}
           ELSE { [k \in DOMAIN sq |-> CompanyRow(sq[k], rows)] :
                    sq \in { o \in Orders(emp_rows) :
                               \A a, b \in DOMAIN o :
                                 a < b => vacancies_count(o[a], rows) >=
                                            vacancies_count(o[b], rows) } }]

\* FROM vacancies v JOIN employers e ON v.employer_id = e.employer_id
Joined(emp_rows, rows) ==
    { p \in rows \X emp_rows : p[1].employer_id = Some(p[2].employer_id) }

\* ORDER BY e.name, v.name
CompanyThenVacancy(p, q) ==
    IF p[2].name # q[2].name THEN TextLeq(p[2].name, q[2].name)
    ELSE TextLeq(p[1].name, q[1].name)

KeywordRow(p) ==
    [company_name |-> p[2].name, vacancy_name |-> p[1].name,
     salary_from |-> p[1].salary_from, salary_to |-> p[1].salary_to,
     salary_currency |-> p[1].salary_currency,
     vacancy_url |-> p[1].alternate_url,
     requirement |-> p[1].requirement,
     responsibility |-> p[1].responsibility]

\* DBManager.get_vacancies_with_keyword: search_pattern = f"%{keyword}%"
get_vacancies_with_keyword(mgr, tbls, emp_rows, rows, keyword, fault) ==
    LET x == Execute(mgr, tbls, {"employers", "vacancies"}, fault)
        search_pattern == <<"%">> \o keyword \o <<"%">>
        found == { p \in Joined(emp_rows, rows) :
                     \/ ILike(Some(p[1].name), search_pattern)
                     \/ ILike(p[1].requirement, search_pattern)
                     \/ ILike(p[1].responsibility, search_pattern) }
    IN  [dbm |-> x.dbm, connects |-> x.connects, executes |-> x.executes,
         failed |-> x.failed,
         results |->
           IF x.failed THEN {<<>>}
           ELSE { [k \in DOMAIN sq |-> KeywordRow(sq[k])] :
                    sq \in { o \in Orders(found) :
                               \A a, b \in DOMAIN o :
                                 a < b => CompanyThenVacancy(o[a], o[b]) } }]

CompanyVacancyRow(v) ==
    [vacancy_name |-> v.name, salary_from |-> v.salary_from,
     salary_to |-> v.salary_to, salary_currency |-> v.salary_currency,
     vacancy_url |-> v.alternate_url, employment |-> v.employment,
     experience |-> v.experience]

\* variant: no ORDER BY
get_vacancies_by_company_Unordered(mgr, tbls, rows, company_id, fault) ==
    LET x == Execute(mgr, tbls, {"vacancies"}, fault)
        found == {v \in rows : v.employer_id = Some(company_id)}
    IN  [dbm |-> x.dbm, connects |-> x.connects, executes |-> x.executes,
         failed |-> x.failed,
         results |->
           IF x.failed THEN {<<>>}
           ELSE { [k \in DOMAIN sq |-> CompanyVacancyRow(sq[k])] :
                    sq \in Orders(found) }]

\* DBManager.get_vacancies_by_company: WHERE v.employer_id = %s
\* ORDER BY v.name
get_vacancies_by_company(mgr, tbls, rows, company_id, fault) ==
    LET x == Execute(mgr, tbls, {"vacancies"}, fault)
        found == {v \in rows : v.employer_id = Some(company_id)}
    IN  [dbm |-> x.dbm, connects |-> x.connects, executes |-> x.executes,
         failed |-> x.failed,
         results |->
           IF x.failed THEN {<<>>}
           ELSE { [k \in DOMAIN sq |-> CompanyVacancyRow(sq[k])] :
                    sq \in { o \in Orders(found) :
                               \A a, b \in DOMAIN o :
                                 a < b => TextLeq(o[a].name, o[b].name) } }]

\* variant: the operation has no except clause
Returns_Raising(op, arg, res) ==
    /\ \E result_rows \in res.results :
          query' = [NoQuery EXCEPT
                      !.op = op, !.arg = arg, !.connects = res.connects,
                      !.executes = res.executes, !.failed = res.failed,
                      !.raised = res.failed, !.rows = result_rows]
    /\ dbm' = res.dbm

\* what a list-returning operation leaves: its rows and the manager; its
\* except clause returns [] and nothing is raised
Returns(op, arg, res) ==
    /\ \E result_rows \in res.results :
          query' = [NoQuery EXCEPT
                      !.op = op, !.arg = arg, !.connects = res.connects,
                      !.executes = res.executes, !.failed = res.failed,
                      !.rows = result_rows]
    /\ dbm' = res.dbm

GetCompaniesAndVacanciesCountCall ==
    /\ Alive
    /\ \E fault \in Faults :
          Returns("get_companies_and_vacancies_count", None,
                  get_companies_and_vacancies_count(
                      dbm, tables, db_employers, db_vacancies, fault))
    /\ UNCHANGED <<store_vars, fcall>>

GetVacanciesWithKeywordCall(keyword) ==
    /\ Alive
    /\ \E fault \in Faults :
          Returns("get_vacancies_with_keyword", Some(keyword),
                  get_vacancies_with_keyword(
                      dbm, tables, db_employers, db_vacancies, keyword,
                      fault))
    /\ UNCHANGED <<store_vars, fcall>>

GetVacanciesByCompanyCall(company_id) ==
    /\ Alive
    /\ \E fault \in Faults :
          Returns("get_vacancies_by_company", Some(company_id),
                  get_vacancies_by_company(
                      dbm, tables, db_vacancies, company_id, fault))
    /\ UNCHANGED <<store_vars, fcall>>

SearchNext ==
    \/ CreateTables
    \/ \E e \in SearchEmployers : InsertEmployerCall(e)
    \/ \E v \in SearchVacancies : InsertVacancyCall(v)
    \/ GetCompaniesAndVacanciesCountCall
    \/ \E keyword \in Keywords : GetVacanciesWithKeywordCall(keyword)
    \/ \E company_id \in CompanyIds : GetVacanciesByCompanyCall(company_id)

SearchSpec == Init /\ [][SearchNext]_vars

(***************************************************************************)
(* The manager of the queries through its life: made and used by           *)
(* execute_queries, or used in a with block, while the server may drop     *)
(* its connection.  dbm.open counts the connections the manager opened     *)
(* that are still open.                                                    *)
(***************************************************************************)
ConnEmployers ==
    { [id |-> Some(1), name |-> Some(<<"A">>), alternate_url |-> Some(1)] }

ConnVacancies ==
    { [SearchVacancy(1, Dev, MappingEmployer(Some(1)), None, None) EXCEPT
         !.salary = MappingSalary(Some(1), Some(4))],
      SearchVacancy(2, Mgr, AbsentEmployer, None, None) }

Limits == {0, 1, 2}

AllVacanciesRow(p) ==
    [company_name |-> p[2].name, vacancy_name |-> p[1].name,
     salary_from |-> p[1].salary_from, salary_to |-> p[1].salary_to,
     salary_currency |-> p[1].salary_currency,
     vacancy_url |-> p[1].alternate_url]

\* DBManager.get_all_vacancies: vacancies JOIN employers
\* ORDER BY e.name, v.name
get_all_vacancies(mgr, tbls, emp_rows, rows, fault) ==
    LET x == Execute(mgr, tbls, {"employers", "vacancies"}, fault)
    IN  [dbm |-> x.dbm, connects |-> x.connects, executes |-> x.executes,
         failed |-> x.failed,
         results |->
           IF x.failed THEN {<<>>}
           ELSE { [k \in DOMAIN sq |-> AllVacanciesRow(sq[k])] :
                    sq \in { o \in Orders(Joined(emp_rows, rows)) :
                               \A a, b \in DOMAIN o :
                                 a < b => CompanyThenVacancy(o[a], o[b]) } }]

TopCompanyRow(e, rows) ==
    [company_name |-> e.name, vacancies_count |-> vacancies_count(e, rows),
     company_url |-> e.alternate_url]

\* LIMIT %s: the first rows of the ordered result
Limit(sq, limit) == SubSeq(sq, 1, IF Len(sq) < limit THEN Len(sq) ELSE limit)

\* DBManager.get_top_companies_by_vacancies: the counts of
\* get_companies_and_vacancies_count with the employer's url, LIMIT %s
get_top_companies_by_vacancies(mgr, tbls, emp_rows, rows, limit, fault) ==
    LET x == Execute(mgr, tbls, {"employers", "vacancies"}, fault)
    IN  [dbm |-> x.dbm, connects |-> x.connects, executes |-> x.executes,
         failed |-> x.failed,
         results |->
           IF x.failed THEN {<<>>}
           ELSE { Limit([k \in DOMAIN sq |-> TopCompanyRow(sq[k], rows)],
                        limit) :
                    sq \in { o \in Orders(emp_rows) :
                               \A a, b \in DOMAIN o :
                                 a < b => vacancies_count(o[a], rows) >=
                                            vacancies_count(o[b], rows) } }]

GetAllVacanciesCall ==
    /\ Alive
    /\ \E fault \in Faults :
          Returns("get_all_vacancies", None,
                  get_all_vacancies(
                      dbm, tables, db_employers, db_vacancies, fault))
    /\ UNCHANGED <<store_vars, fcall>>

GetTopCompaniesByVacanciesCall(limit) ==
    /\ Alive
    /\ \E fault \in Faults :
          Returns("get_top_companies_by_vacancies", Some(limit),
                  get_top_companies_by_vacancies(
                      dbm, tables, db_employers, db_vacancies, limit, fault))
    /\ UNCHANGED <<store_vars, fcall>>

\* DBManager._close_connection: closes a handle that is not closed and
\* forgets it; a connection the server dropped is no longer counted open
close_connection(mgr) ==
    IF mgr.connection = "open"
    THEN [mgr EXCEPT !.connection = "none", !.open = @ - 1]
    ELSE IF mgr.connection = "broken"
    THEN [mgr EXCEPT !.connection = "none"]
    ELSE mgr

\* the server ends the manager's connection; the handle does not show it
\* until a statement fails on it
ServerDropsConnection ==
    /\ Alive
    /\ dbm.connection = "open"
    /\ dbm' = [dbm EXCEPT !.connection = "broken", !.open = @ - 1]
    /\ query' = NoQuery
    /\ UNCHANGED <<store_vars, fcall>>

\* execute_queries makes its manager: db_manager = DBManager(config)
ExecuteQueriesEnter ==
    /\ dbm = NoConnection
    /\ dbm' = [NoConnection EXCEPT !.scope = "execute_queries"]
    /\ query' = NoQuery
    /\ UNCHANGED <<store_vars, fcall>>

\* execute_queries returns, by choice 8 or by its except clause: it makes
\* no call of _close_connection, so a connection the manager has open is
\* closed only if and when the manager is finalized
ExecuteQueriesReturn ==
    /\ dbm.scope = "execute_queries"
    /\ \E finalized \in BOOLEAN :
          dbm' = [dbm EXCEPT !.scope = "returned",
                             !.open = IF finalized THEN 0 ELSE @]
    /\ query' = NoQuery
    /\ UNCHANGED <<store_vars, fcall>>

\* with DBManager(config) as db: __enter__ calls _get_connection; when
\* connecting fails the exception leaves the with statement
WithEnter ==
    /\ dbm = NoConnection
    /\ \E fault \in {"none", "connect"} :
          LET c == get_connection(NoConnection, fault)
          IN  dbm' = [c.dbm EXCEPT
                        !.scope = IF c.ok THEN "with" ELSE "returned"]
    /\ query' = NoQuery
    /\ UNCHANGED <<store_vars, fcall>>

\* the with block is left, normally or by an exception: __exit__ calls
\* _close_connection
WithExit ==
    /\ dbm.scope = "with"
    /\ dbm' = [close_connection(dbm) EXCEPT !.scope = "returned"]
    /\ query' = NoQuery
    /\ UNCHANGED <<store_vars, fcall>>

ConnNext ==
    \/ CreateTables
    \/ \E e \in ConnEmployers : InsertEmployerCall(e)
    \/ \E v \in ConnVacancies : InsertVacancyCall(v)
    \/ GetCompaniesAndVacanciesCountCall
    \/ GetAllVacanciesCall
    \/ GetAvgSalaryCall
    \/ GetVacanciesWithHigherSalaryCall
    \/ \E keyword \in {Dev} : GetVacanciesWithKeywordCall(keyword)
    \/ \E company_id \in {1} : GetVacanciesByCompanyCall(company_id)
    \/ \E limit \in Limits : GetTopCompaniesByVacanciesCall(limit)
    \/ GetSalaryStatisticsCall
    \/ ServerDropsConnection
    \/ ExecuteQueriesEnter
    \/ ExecuteQueriesReturn
    \/ WithEnter
    \/ WithExit

ConnSpec == Init /\ [][ConnNext]_vars

(***************************************************************************)
(* Properties.                                                             *)
(***************************************************************************)
\* how many records of the batch load_data_from_json has dealt with, plus 1
Position ==
    IF pc = "employers" THEN i
    ELSE IF pc = "vacancies" THEN Len(employers) + i
    ELSE Len(employers) + Len(vacancies) + 1

\* the step is one iteration of a loop of load_data_from_json that went on
\* to the next record (or to the return) without raising
Continues ==
    /\ pc' \in {"employers", "vacancies", "returned"}
    /\ Position' = Position + 1
    /\ employers' = employers
    /\ vacancies' = vacancies

\* C1: the store never holds two employer rows with the same employer
\* external id, nor two vacancy rows with the same vacancy external id
C1_UniqueExternalIds ==
    /\ \A r1, r2 \in db_employers : r1.employer_id = r2.employer_id => r1 = r2
    /\ \A r1, r2 \in db_vacancies : r1.vacancy_id = r2.vacancy_id => r1 = r2

\* C1 witness: both tables hold a row and the last insert repeated the id
\* of a stored vacancy
C1_Witness ==
    /\ db_employers # {}
    /\ lastOp.kind = "vacancy"
    /\ lastOp.outcome = "conflict"
    /\ \E r \in db_vacancies : Some(r.vacancy_id) = lastOp.ext_id

\* C2: when load_data_from_json has returned, vacancies_loaded is the
\* number of vacancy rows the call wrote
C2_VacanciesLoadedIsWritten ==
    pc = "returned" =>
        stats.vacancies_loaded = Cardinality(db_vacancies \ start.vacancies)

\* C3: when load_data_from_json has returned, employers_loaded is the
\* number of employer rows the call wrote
C3_EmployersLoadedIsWritten ==
    pc = "returned" =>
        stats.employers_loaded = Cardinality(db_employers \ start.employers)

\* C3 witness: a load returned after one employer was written and another
\* one was not
C3_Witness ==
    /\ pc = "returned"
    /\ stats.employers_total = 2
    /\ stats.employers_loaded = 1
    /\ Cardinality(db_employers \ start.employers) = 1

\* C4: when the same batch is loaded twice in a row, the second call
\* reports employers_loaded = 0 and vacancies_loaded = 0 with the totals of
\* the first call, and leaves the store as the first call left it
C4_SecondLoadLoadsNothing ==
    (pc = "returned" /\ first.set) =>
        /\ stats.employers_loaded = 0
        /\ stats.vacancies_loaded = 0
        /\ stats.employers_total = first.stats.employers_total
        /\ stats.vacancies_total = first.stats.vacancies_total
        /\ db_employers = first.rows.employers
        /\ db_vacancies = first.rows.vacancies

\* the statement insert_employer is about to execute for the current
\* employer of the batch writes no row: the table is missing, a NOT NULL
\* column gets no value, or the external id is stored already
StoreRejectsEmployer ==
    /\ pc = "employers"
    /\ ~connection.closed
    /\ \/ "employers" \notin tables
       \/ IsNone(employers[i].id)
       \/ IsNone(employers[i].name)
       \/ \E r \in SeenEmployers : Some(r.employer_id) = employers[i].id

\* the current vacancy of the batch has only well-formed nested values
WellFormed(v) ==
    /\ v.salary.kind # "scalar"
    /\ v.employer.kind # "scalar"
    /\ v.employment.kind # "scalar"
    /\ v.experience.kind # "scalar"

\* the current vacancy refers to an employer that is not stored
RefersToMissingEmployer ==
    /\ ~IsNone(vacancies[i].employer.id)
    /\ \A r \in SeenEmployers : Some(r.employer_id) # vacancies[i].employer.id

\* the statement insert_vacancy is about to execute for the current vacancy
\* of the batch writes no row
StoreRejectsVacancy ==
    /\ pc = "vacancies"
    /\ ~connection.closed
    /\ WellFormed(vacancies[i])
    /\ \/ "vacancies" \notin tables
       \/ IsNone(vacancies[i].id)
       \/ IsNone(vacancies[i].name)
       \/ \E r \in SeenVacancies : Some(r.vacancy_id) = vacancies[i].id
       \/ RefersToMissingEmployer

\* C5: in load_data_from_json, when the store rejects the insert of one
\* employer or vacancy, the call does not raise: it leaves the store as it is
\* and goes on to the next record of the batch, or returns its statistics
C5_StoreFailureIsIsolated ==
    [][ ((StoreRejectsEmployer \/ StoreRejectsVacancy) /\ pc' # "interrupted")
          => (Continues /\ db_employers' = db_employers
                        /\ db_vacancies' = db_vacancies) ]_vars

\* C5 witness: the first record of the batch failed at the store and the
\* load stands at the second one
C5_Witness ==
    /\ Loading
    /\ Position = 2
    /\ tables = {"employers", "vacancies"}
    /\ lastOp.outcome = "error"

\* C6: in load_data_from_json, a vacancy with a malformed nested value is
\* not loaded and does not make the call raise: the loop goes on to the next
\* vacancy, or the call returns
C6_MalformedVacancyIsIsolated ==
    [][ (/\ pc = "vacancies"
         /\ ~connection.closed
         /\ ~WellFormed(vacancies[i])
         /\ pc' # "interrupted")
          => (Continues /\ db_vacancies' = db_vacancies) ]_vars

\* C7: an insert whose external id is stored already changes no row, and
\* no step changes or removes a stored row
C7_FirstWriteWins ==
    [][ /\ db_employers \subseteq db_employers'
        /\ db_vacancies \subseteq db_vacancies'
        /\ (/\ lastOp'.kind = "employer"
            /\ \E r \in db_employers : Some(r.employer_id) = lastOp'.ext_id)
             => (db_employers' = db_employers /\ db_vacancies' = db_vacancies)
        /\ (/\ lastOp'.kind = "vacancy"
            /\ \E r \in db_vacancies : Some(r.vacancy_id) = lastOp'.ext_id)
             => (db_employers' = db_employers /\ db_vacancies' = db_vacancies)
      ]_vars

\* C7 witness: a batch of two employer records with the same external id
\* and different names was loaded, and the stored row has the first name
C7_Witness ==
    /\ pc = "returned"
    /\ Len(employers) = 2
    /\ employers[1].id = employers[2].id
    /\ employers[1].name # employers[2].name
    /\ stats.employers_loaded = 1
    /\ \E r \in db_employers :
          /\ Some(r.employer_id) = employers[1].id
          /\ Some(r.name) = employers[1].name

\* every stored vacancy refers to no employer or to a stored one
ReferencesResolve ==
    \A v \in db_vacancies :
        \/ IsNone(v.employer_id)
        \/ \E e \in db_employers : Some(e.employer_id) = v.employer_id

\* C8: every stored vacancy has a null employer reference or the external
\* id of a stored employer; a vacancy of a batch whose employer is not
\* stored is not stored either, and the loop goes on
C8_ReferentialIntegrity ==
    /\ []ReferencesResolve
    /\ [][ (/\ pc = "vacancies"
            /\ ~connection.closed
            /\ WellFormed(vacancies[i])
            /\ RefersToMissingEmployer
            /\ pc' # "interrupted")
             => (Continues /\ db_vacancies' = db_vacancies) ]_vars

\* C8 witness: the tables exist, the first vacancy of the batch named an
\* employer that is not stored, it was rejected, and a stored vacancy
\* refers to a stored employer
C8_Witness ==
    /\ pc = "vacancies"
    /\ i = 2
    /\ "vacancies" \in tables
    /\ lastOp.outcome = "error"
    /\ WellFormed(vacancies[1])
    /\ ~IsNone(vacancies[1].name)
    /\ ~IsNone(vacancies[1].employer.id)
    /\ \A r \in db_employers : Some(r.employer_id) # vacancies[1].employer.id
    /\ \E v \in db_vacancies : ~IsNone(v.employer_id)

\* C9: the totals are the lengths of the two input lists and each loaded
\* counter lies between 0 and its total, at every point of a load and in
\* the returned statistics
C9_CountersWithinTotals ==
    /\ stats.employers_total = Len(employers)
    /\ stats.vacancies_total = Len(vacancies)
    /\ 0 <= stats.employers_loaded
    /\ stats.employers_loaded <= stats.employers_total
    /\ 0 <= stats.vacancies_loaded
    /\ stats.vacancies_loaded <= stats.vacancies_total

\* C9 witness: a load of one employer and one vacancy stands between the
\* two loops with the employer counted
C9_Witness ==
    /\ pc = "vacancies"
    /\ stats.employers_total = 1
    /\ stats.employers_loaded = 1
    /\ stats.vacancies_total = 1
    /\ stats.vacancies_loaded = 0

\* C10: the store holds exactly the rows whose insert returned an id, also
\* after a load was interrupted, and no step removes a stored row
C10_PerRecordDurability ==
    /\ [](db_employers = acked.employers /\ db_vacancies = acked.vacancies)
    /\ [][db_employers \subseteq db_employers'
            /\ db_vacancies \subseteq db_vacancies']_vars

\* C10 witness: a load was interrupted right after an insert wrote a row
C10_Witness ==
    /\ pc = "interrupted"
    /\ lastOp.outcome = "inserted"
    /\ acked.employers # {}

\* the step is a call of insert_vacancy with record v, made directly or by
\* the loop of load_data_from_json
InsertsVacancy(v) ==
    \/ InsertVacancyCall(v)
    \/ (pc = "vacancies" /\ vacancies[i] = v /\ LoadVacancy)

\* C11: insert_vacancy of a record without salary, employer, employment or
\* experience does not raise, and the row it writes has null salary_from,
\* salary_to, salary_currency and salary_gross (no salary), a null employer
\* reference (no employer), a null label (no employment, no experience)
C11_AbsentNestedValuesAreNull ==
    [][ \A v \in VacancyRecords :
          (InsertsVacancy(v) /\ ~connection.closed /\ WellFormed(v)) =>
            /\ lastOp'.outcome # "raised"
            /\ \A r \in db_vacancies' \ db_vacancies :
                  /\ v.salary.kind = "absent" =>
                        /\ IsNone(r.salary_from)
                        /\ IsNone(r.salary_to)
                        /\ IsNone(r.salary_currency)
                        /\ IsNone(r.salary_gross)
                  /\ v.employer.kind = "absent" => IsNone(r.employer_id)
                  /\ v.employment.kind = "absent" => IsNone(r.employment)
                  /\ v.experience.kind = "absent" => IsNone(r.experience)
      ]_vars

\* C11 witness: the last insert wrote the row of a vacancy that has no
\* salary, no employer, no employment and no experience
C11_Witness ==
    /\ lastOp.kind = "vacancy"
    /\ lastOp.outcome = "inserted"
    /\ \E r \in db_vacancies :
          /\ Some(r.vacancy_id) = lastOp.ext_id
          /\ IsNone(r.salary_from) /\ IsNone(r.salary_to)
          /\ IsNone(r.salary_currency) /\ IsNone(r.salary_gross)
          /\ IsNone(r.employer_id)
          /\ IsNone(r.employment) /\ IsNone(r.experience)

\* C12: create_tables called when both tables exist succeeds and leaves the
\* tables and every stored row as they are
C12_CreateTablesIdempotent ==
    [][ (tables = {"employers", "vacancies"} /\ CreateTables) =>
          /\ lastOp'.outcome = "ok"
          /\ tables' = tables
          /\ db_employers' = db_employers
          /\ db_vacancies' = db_vacancies ]_vars

\* C12 witness: create_tables has just returned on a database that holds
\* rows in both tables
C12_Witness ==
    /\ lastOp.kind = "create_tables"
    /\ lastOp.outcome = "ok"
    /\ db_employers # {}
    /\ db_vacancies # {}

\* C13: when load_data_from_json attempts an insert, the tables have been
\* created (by the construction of the DatabaseManager)
C13_TablesCreatedBeforeInsert ==
    (pc \in {"employers", "vacancies", "returned"}
       /\ lastOp.kind \in {"employer", "vacancy"})
      => tables = {"employers", "vacancies"}

\* C14: the comparison salary is the floor of (lower + upper) / 2 when both
\* bounds are present, the present bound when exactly one is present, and 0
\* when neither is present
C14_NormalizerRule ==
    fcall.fn = "comparison_salary" =>
      \A k \in 1..Len(fcall.storage) :
        LET f == fcall.storage[k].from
            t == fcall.storage[k].to
            r == fcall.salaries[k]
        IN  /\ (~IsNone(f) /\ ~IsNone(t)) =>
                  (2 * r <= f[1] + t[1] /\ f[1] + t[1] < 2 * r + 2)
            /\ (~IsNone(f) /\ IsNone(t)) => r = f[1]
            /\ (IsNone(f) /\ ~IsNone(t)) => r = t[1]
            /\ (IsNone(f) /\ IsNone(t)) => r = 0

\* C14 witness: the normalizer was applied to a vacancy with both bounds
\* present, one of them zero, and an odd sum
C14_Witness ==
    /\ fcall.fn = "comparison_salary"
    /\ \E k \in 1..Len(fcall.storage) :
          /\ fcall.storage[k].from = Some(0)
          /\ fcall.storage[k].to = Some(1)
          /\ fcall.salaries[k] = 0

\* the vacancies whose comparison salary reaches the threshold
KeptByNormalizer(storage, value) ==
    LET reaches(salary) == comparison_salary(salary) >= value
    IN  SelectSeq(storage, reaches)

\* C16: get_vacancies with criterion salary_min keeps a stored vacancy if
\* and only if its comparison salary is at least the threshold
C16_FilterUsesNormalizer ==
    fcall.fn = "get_vacancies" =>
      fcall.kept = KeptByNormalizer(fcall.storage, fcall.salary_min)

\* the salary of a stored or projected row, as the normalizer takes it
RowSalary(r) == MappingSalary(r.salary_from, r.salary_to)

RECURSIVE SumComparable(_)
SumComparable(rows) ==
    IF rows = {} THEN 0
    ELSE LET r == CHOOSE x \in rows : TRUE
         IN  comparison_salary(RowSalary(r)) + SumComparable(rows \ {r})

\* C15: the per-vacancy value of the query engine is the comparison salary
\* of the normalizer: the average is the mean of the comparison salaries of
\* the vacancies with a bound, and calculated_salary of every row of the
\* above-average query is the comparison salary of that row
C15_QueryValueIsComparisonSalary ==
    /\ (query.op # "none" /\ ~IsNone(query.avg)) =>
          query.avg[1].num * Cardinality(Salaried(db_vacancies)) =
            SumComparable(Salaried(db_vacancies)) * query.avg[1].den
    /\ \A k \in 1..Len(query.rows) :
          query.rows[k].calculated_salary =
            Some(2 * comparison_salary(RowSalary(query.rows[k])))

\* C17: get_avg_salary returns None over a store in which no vacancy has a
\* salary bound, the empty store included
C17_NoDataGivesNone ==
    (query.op = "get_avg_salary" /\ Salaried(db_vacancies) = {}) =>
      IsNone(query.avg)

\* C17 witness: get_avg_salary ran without failure over stored vacancies
\* none of which has a salary bound
C17_Witness ==
    /\ query.op = "get_avg_salary"
    /\ ~query.failed
    /\ db_vacancies # {}
    /\ Salaried(db_vacancies) = {}
    /\ IsNone(query.avg)

\* C18: when a stored vacancy has a salary bound and the query succeeds,
\* get_avg_salary returns a number, the mean of the per-vacancy values,
\* also when that mean is 0
C18_DataGivesNumber ==
    (query.op = "get_avg_salary" /\ ~query.failed
       /\ Salaried(db_vacancies) # {}) =>
      /\ ~IsNone(query.avg)
      /\ query.avg = average_salary(db_vacancies)

\* C19: when the average is None, get_vacancies_with_higher_salary returns
\* the empty list and has executed no statement after that of the average
C19_NoAverageGivesEmpty ==
    (query.op = "get_vacancies_with_higher_salary" /\ IsNone(query.avg)) =>
      /\ query.rows = <<>>
      /\ query.executes <= 1

\* C19 witness: the average query ran without failure over stored vacancies
\* without salary and get_vacancies_with_higher_salary returned the empty
\* list after that one statement
C19_Witness ==
    /\ query.op = "get_vacancies_with_higher_salary"
    /\ IsNone(query.avg)
    /\ ~query.failed
    /\ db_vacancies # {}
    /\ query.executes = 1
    /\ query.rows = <<>>

\* C20: when the average is a number and the query succeeds, the rows are
\* exactly the stored vacancies whose lower bound, upper bound or mean of
\* both exceeds the average, each with its comparison salary, and the
\* computed value never increases from one row to the next
C20_AboveAverageRows ==
    (query.op = "get_vacancies_with_higher_salary" /\ ~IsNone(query.avg)
       /\ ~query.failed) =>
      /\ {query.rows[k].vacancy_url : k \in 1..Len(query.rows)} =
            {v.alternate_url : v \in {r \in db_vacancies :
                                        Exceeds(r, query.avg)}}
      /\ Len(query.rows) =
            Cardinality({r \in db_vacancies : Exceeds(r, query.avg)})
      /\ \A k \in 1..Len(query.rows) :
            query.rows[k].calculated_salary =
              Some(2 * comparison_salary(RowSalary(query.rows[k])))
      /\ \A a, b \in 1..Len(query.rows) :
            a < b => query.rows[a].calculated_salary[1] >=
                       query.rows[b].calculated_salary[1]

\* the step is a call of insert_employer, made directly or by the loop of
\* load_data_from_json
InsertsEmployer ==
    \/ \E e \in EmployerRecords : InsertEmployerCall(e)
    \/ LoadEmployer

\* C27: an insert_employer or insert_vacancy issued, directly or by
\* load_data_from_json, after the manager's connection was closed reopens
\* the connection and does not raise
C27_LoaderReopensConnection ==
    [][ (connection.closed
           /\ (InsertsEmployer
                  \/ \E v \in VacancyRecords :
                        WellFormed(v) /\ InsertsVacancy(v))) =>
          (~connection'.closed /\ lastOp'.outcome # "raised") ]_vars

\* a vacancy of the batch that the store takes when its employer is stored
Acceptable(v) ==
    /\ WellFormed(v)
    /\ ~IsNone(v.id)
    /\ ~IsNone(v.name)
    /\ ~IsNone(v.employer.id)

\* C30: a load runs all its employer inserts before its vacancy inserts, so
\* when it has returned, every vacancy of the batch whose employer is
\* stored (by this batch or an earlier load) is stored as well: it was not
\* rejected for a missing employer
C30_EmployersBeforeVacancies ==
    /\ []((pc = "returned" /\ tables = {"employers", "vacancies"}) =>
            \A k \in 1..Len(vacancies) :
              (Acceptable(vacancies[k])
                 /\ \E e \in db_employers :
                       Some(e.employer_id) = vacancies[k].employer.id) =>
                \E r \in db_vacancies :
                  /\ Some(r.vacancy_id) = vacancies[k].id)
    /\ [][pc = "vacancies" => pc' # "employers"]_vars

\* C30 witness: a load over an empty store has returned, and a vacancy of
\* its batch is stored with a reference to an employer of the same batch
C30_Witness ==
    /\ pc = "returned"
    /\ start.employers = {}
    /\ start.vacancies = {}
    /\ \E k \in 1..Len(vacancies) : \E r \in db_vacancies :
          /\ Some(r.vacancy_id) = vacancies[k].id
          /\ ~IsNone(r.employer_id)
          /\ r.employer_id = vacancies[k].employer.id
          /\ \E j \in 1..Len(employers) : employers[j].id = r.employer_id

\* C29: a salary display is "{lower} - {upper} {currency}" exactly when
\* both bounds are present, "ot {lower} {currency}" exactly when only the
\* lower one is, "do {upper} {currency}" exactly when only the upper one
\* is, and the sentinel exactly when both are absent; a bound of 0 is
\* present; the currency is interpolated as it is, None included
C29_SalaryDisplay ==
    fcall.fn \in {"format_salary", "get_salary_display"} =>
      LET lower == fcall.storage[1].from
          upper == fcall.storage[1].to
          shown == fcall.display[1]
          text == Some(Str(fcall.storage[1].currency))
      IN  /\ (~IsNone(lower) /\ ~IsNone(upper)) <=>
                shown = Display("{lower} - {upper} {currency}", lower, upper,
                                text)
          /\ (~IsNone(lower) /\ IsNone(upper)) <=>
                shown = Display("ot {lower} {currency}", lower, None, text)
          /\ (IsNone(lower) /\ ~IsNone(upper)) <=>
                shown = Display("do {upper} {currency}", None, upper, text)
          /\ (IsNone(lower) /\ IsNone(upper)) <=>
                shown.template \in {"ne ukazana", "Ne ukazana"}

\* C24: get_salary_statistics on a store it queried successfully returns a
\* mapping with total_vacancies the number of stored vacancies,
\* vacancies_with_salary the number of those with a bound, and avg, min and
\* max of the comparison salary of those vacancies, min <= avg <= max, all
\* three None when no vacancy has a bound; the empty mapping is returned on
\* failure only
C24_SalaryStatistics ==
    query.op = "get_salary_statistics" =>
      /\ IsNone(query.stats) <=> query.failed
      /\ ~IsNone(query.stats) =>
            LET st == query.stats[1]
                with == Salaried(db_vacancies)
            IN  /\ st.total_vacancies = Cardinality(db_vacancies)
                /\ st.vacancies_with_salary = Cardinality(with)
                /\ st.vacancies_with_salary <= st.total_vacancies
                /\ with = {} =>
                      /\ IsNone(st.avg_salary)
                      /\ IsNone(st.min_salary)
                      /\ IsNone(st.max_salary)
                /\ with # {} =>
                      /\ ~IsNone(st.avg_salary)
                      /\ ~IsNone(st.min_salary)
                      /\ ~IsNone(st.max_salary)
                      /\ st.avg_salary[1].num * Cardinality(with) =
                            SumComparable(with) * st.avg_salary[1].den
                      /\ \E r \in with :
                            st.min_salary[1] =
                              2 * comparison_salary(RowSalary(r))
                      /\ \E r \in with :
                            st.max_salary[1] =
                              2 * comparison_salary(RowSalary(r))
                      /\ \A r \in with :
                            /\ st.min_salary[1] <=
                                  2 * comparison_salary(RowSalary(r))
                            /\ 2 * comparison_salary(RowSalary(r)) <=
                                  st.max_salary[1]
                      /\ st.min_salary[1] * st.avg_salary[1].den <=
                            2 * st.avg_salary[1].num
                      /\ 2 * st.avg_salary[1].num <=
                            st.max_salary[1] * st.avg_salary[1].den

\* the rows of a result
Range(rows) == {rows[k] : k \in DOMAIN rows}

\* the sum of the counts of the rows of a result
RECURSIVE SumCounts(_)
SumCounts(rows) ==
    IF rows = <<>> THEN 0
    ELSE Head(rows).vacancies_count + SumCounts(Tail(rows))

\* C21: get_companies_and_vacancies_count on a store it queried
\* successfully returns one row per stored employer, those without
\* vacancies included, each with the number of stored vacancies that
\* reference the employer's external id, in non-increasing order of count,
\* the counts adding up to the number of stored vacancies with a non-null
\* employer reference
C21_CompaniesAndVacanciesCount ==
    (query.op = "get_companies_and_vacancies_count" /\ ~query.failed) =>
        /\ Len(query.rows) = Cardinality(db_employers)
        /\ \E sq \in Orders(db_employers) :
              \A k \in DOMAIN sq :
                /\ query.rows[k].company_name = sq[k].name
                /\ query.rows[k].vacancies_count =
                      Cardinality({v \in db_vacancies :
                                     v.employer_id = Some(sq[k].employer_id)})
        /\ \A a, b \in DOMAIN query.rows :
              a < b => query.rows[a].vacancies_count >=
                         query.rows[b].vacancies_count
        /\ SumCounts(query.rows) =
              Cardinality({v \in db_vacancies : ~IsNone(v.employer_id)})

\* the employer stored second has the vacancies and comes first; the one
\* stored first has none and is still listed
C21_Witness ==
    /\ query.op = "get_companies_and_vacancies_count"
    /\ ~query.failed
    /\ Len(query.rows) = 2
    /\ query.rows[1].company_name = <<"B">>
    /\ query.rows[1].vacancies_count = 2
    /\ query.rows[2].vacancies_count = 0
    /\ Cardinality(db_vacancies) = 2

\* text contains keyword as a case-insensitive substring
Contains(text, keyword) ==
    \E k \in 0..(Len(text) - Len(keyword)) :
      \A j \in 1..Len(keyword) : Lower(text[k + j]) = Lower(keyword[j])

\* the stored vacancy has the keyword in its title, requirement or
\* responsibility
Mentions(v, keyword) ==
    \/ Contains(v.name, keyword)
    \/ ~IsNone(v.requirement) /\ Contains(v.requirement[1], keyword)
    \/ ~IsNone(v.responsibility) /\ Contains(v.responsibility[1], keyword)

\* the store after loading employers A (1) and B (2) and vacancies Dev of
\* employer 1 and Mgr of employer 2
ScenarioLoaded ==
    /\ {<<e.employer_id, e.name>> : e \in db_employers} =
          {<<1, <<"A">>>>, <<2, <<"B">>>>}
    /\ Cardinality(db_vacancies) = 2
    /\ {<<v.name, v.employer_id, v.requirement, v.responsibility>> :
           v \in db_vacancies} =
          {<<Dev, Some(1), None, None>>, <<Mgr, Some(2), None, None>>}

\* C22: get_vacancies_with_keyword on a store it queried successfully
\* returns exactly the stored vacancies that have the keyword, in any case,
\* in their title, requirement or responsibility, ordered by company name
\* then vacancy name; on the two-employer, two-vacancy scenario the keyword
\* Dev gives one row, the vacancy Dev
C22_KeywordSearch ==
    (query.op = "get_vacancies_with_keyword" /\ ~query.failed) =>
        LET keyword == query.arg[1]
            mentioned == {v \in db_vacancies : Mentions(v, keyword)}
        IN  /\ Len(query.rows) = Cardinality(mentioned)
            /\ {r.vacancy_url : r \in Range(query.rows)} =
                  {v.alternate_url : v \in mentioned}
            /\ \A r \in Range(query.rows) :
                  \E v \in mentioned :
                    /\ r.vacancy_url = v.alternate_url
                    /\ r.vacancy_name = v.name
            /\ \A a, b \in DOMAIN query.rows :
                  a < b =>
                    IF query.rows[a].company_name # query.rows[b].company_name
                    THEN TextLeq(query.rows[a].company_name,
                                 query.rows[b].company_name)
                    ELSE TextLeq(query.rows[a].vacancy_name,
                                 query.rows[b].vacancy_name)
            /\ (ScenarioLoaded /\ keyword = Dev) =>
                  /\ Len(query.rows) = 1
                  /\ query.rows[1].vacancy_name = Dev

\* C23: get_vacancies_by_company on a store it queried successfully returns
\* exactly the stored vacancies whose employer reference is the id asked
\* for, ordered by vacancy name, hence no row for a stored employer without
\* vacancies or for an id of no employer
C23_VacanciesByCompany ==
    (query.op = "get_vacancies_by_company" /\ ~query.failed) =>
        LET company_id == query.arg[1]
            referencing == {v \in db_vacancies :
                              v.employer_id = Some(company_id)}
        IN  /\ ~query.raised
            /\ Len(query.rows) = Cardinality(referencing)
            /\ \A r \in Range(query.rows) :
                  \E v \in referencing :
                    /\ r.vacancy_url = v.alternate_url
                    /\ r.vacancy_name = v.name
            /\ {r.vacancy_url : r \in Range(query.rows)} =
                  {v.alternate_url : v \in referencing}
            /\ \A a, b \in DOMAIN query.rows :
                  a < b => TextLeq(query.rows[a].vacancy_name,
                                   query.rows[b].vacancy_name)
            /\ referencing = {} => query.rows = <<>>

\* the vacancy stored second is named Dev and comes before the one stored
\* first, named Mgr
C23_Witness ==
    /\ query.op = "get_vacancies_by_company"
    /\ ~query.failed
    /\ query.arg = Some(1)
    /\ Len(query.rows) = 2
    /\ query.rows[1].vacancy_name = Dev
    /\ query.rows[1].vacancy_url = Some(2)
    /\ query.rows[2].vacancy_name = Mgr
    /\ query.rows[2].vacancy_url = Some(1)

\* C25: an operation of DBManager in which connecting or executing failed
\* raises nothing and returns its empty value, no rows, no average or no
\* statistics, and the manager can still be asked every operation
C25_DegradeToEmpty ==
    query.failed =>
        /\ ~query.raised
        /\ query.rows = <<>>
        /\ query.op = "get_avg_salary" => query.avg = None
        /\ query.op = "get_salary_statistics" => query.stats = None
        /\ Alive
        /\ ENABLED GetCompaniesAndVacanciesCountCall
        /\ ENABLED GetAllVacanciesCall
        /\ ENABLED GetAvgSalaryCall
        /\ ENABLED GetVacanciesWithHigherSalaryCall
        /\ ENABLED GetVacanciesWithKeywordCall(Dev)
        /\ ENABLED GetVacanciesByCompanyCall(1)
        /\ ENABLED GetTopCompaniesByVacanciesCall(1)
        /\ ENABLED GetSalaryStatisticsCall

\* the statement of get_all_vacancies failed on a connection the server
\* had dropped, over a store with a vacancy of a stored employer
C25_Witness ==
    /\ query.op = "get_all_vacancies"
    /\ query.failed
    /\ query.connects = 0
    /\ query.executes = 1
    /\ dbm.connection = "closed"
    /\ Joined(db_employers, db_vacancies) # {}

\* the step is an operation of the manager
IsOperation == query'.op # "none"

\* C26: a manager has no connection when made and never more than one open;
\* an operation on a manager whose handle is not closed opens none and
\* uses that handle, and an operation on a manager without a handle or
\* with a closed one opens a connection, which the manager then has
C26_ConnectionLifecycle ==
    /\ [](/\ dbm.open <= 1
           /\ (dbm.connection \in {"none", "closed"} => dbm.open = 0))
    /\ [][ExecuteQueriesEnter =>
              (dbm'.connection = "none" /\ dbm'.open = 0)]_vars
    /\ [][(IsOperation /\ dbm.connection \in {"open", "broken"}) =>
              (query'.connects = 0 /\ dbm'.open = dbm.open)]_vars
    /\ [][(IsOperation /\ dbm.connection \in {"none", "closed"}) =>
              /\ query'.connects = 1
              /\ (query'.executes = 0 => dbm' = dbm)
              /\ (query'.executes > 0 =>
                    (dbm'.connection = "open" /\ dbm'.open = 1))]_vars

\* inside a with block, whose __enter__ had opened a connection, an
\* operation found the handle closed and opened a new one
C26_Witness ==
    /\ dbm.scope = "with"
    /\ query.op # "none"
    /\ query.connects = 1
    /\ ~query.failed
    /\ dbm.connection = "open"
    /\ dbm.open = 1

\* C28: when execute_queries or a with block of a manager has returned, on
\* any path, no connection the manager opened inside it is still open
C28_NoConnectionLeft ==
    dbm.scope = "returned" => dbm.open = 0


=============================================================================
